---- MODULE Spec2Model ----
(***************************************************************************)
(* Model of the in-process multi-agent travel planner:                     *)
(*   - BaseAgent / AgentCommunicationHub / AgentDecisionEngine             *)
(*     (src/backend/agents/__init__.py),                                   *)
(*   - the six concrete agents (src/agents/travel_agents.py),              *)
(*   - MultiAgentTravelOrchestrator (src/agents/multi_agent_orchestrator.py)*)
(*   - ItineraryPlanner.create_itinerary and                               *)
(*     WeatherService._get_mock_forecast (src/modules).                    *)
(*   - the planning tasks of the REST server (src/backend/api_server.py).  *)
(*                                                                         *)
(* Message.timestamp and Message.id are read from the clock and are never  *)
(* inspected by the code modelled here; a message is its sender, receiver, *)
(* msg_type and content.  A content dictionary is modelled by the set of   *)
(* its keys (the handlers only test `key in content`) and, for the         *)
(* decision broadcast, the decision it carries.  The floats 1.0 / 2.0 of   *)
(* the weights are the integers 1 / 2.                                     *)
(***************************************************************************)
EXTENDS Integers, Sequences, FiniteSets, TLC

VARIABLES
    agents,                 \* AgentCommunicationHub.agents: registered ids, in dict (insertion) order
    collaboration_network,  \* BaseAgent.collaboration_network of every agent object (set of ids)
    message_queue,          \* BaseAgent.message_queue of every agent object
    message_log,            \* AgentCommunicationHub.message_log
    last,                   \* the last completed library call: its name, what it returned and, for
                            \* collaborative_decision, its arguments
    pc,                     \* position of plan_comprehensive_trip
    trip_context,           \* MultiAgentTravelOrchestrator.current_trip_context
    plan,                   \* locals of plan_comprehensive_trip (phase results)
    steps,                  \* the steps of the current run, in the order they were executed
    returned,               \* value returned by the last finished plan_comprehensive_trip
    planning_history,       \* MultiAgentTravelOrchestrator.planning_history (one record per session)
    call,                   \* last call of a pure function of src/modules and what it returned
    planning_tasks,         \* api_server.planning_tasks: task_id -> status, progress, result, ...
    background,             \* the background coroutine of every task: where it stands
    langgraph,              \* the LangGraph step that occupies the event loop thread, if any
    status_reply,           \* the last HTTP response the server has sent
    tasks_file              \* tasks_state.json in the server's working directory

hubVars == <<agents, collaboration_network, message_queue, message_log>>
orchVars == <<pc, trip_context, plan, steps, returned, planning_history>>
apiVars == <<planning_tasks, background, langgraph, status_reply, tasks_file>>
vars == <<agents, collaboration_network, message_queue, message_log, last,
          pc, trip_context, plan, steps, returned, planning_history, call,
          planning_tasks, background, langgraph, status_reply, tasks_file>>

(***************************************************************************)
(* Bounds of the model.                                                    *)
(***************************************************************************)
MaxQueue == 2       \* messages queued, over all agents, that send_message may add to
MaxLog == 2         \* longest message_log a broadcast may still extend
MaxInvolved == 3    \* longest involved_agents list handed to collaborative_decision

(***************************************************************************)
(* Agents, roles, message types.                                           *)
(***************************************************************************)
\* MultiAgentTravelOrchestrator.__init__: the keys of self.agents, in dict order.
AgentOrder == <<"coordinator", "travel_advisor", "budget_optimizer",
                "weather_analyst", "local_expert", "itinerary_planner">>

AgentIds == {AgentOrder[i] : i \in 1..Len(AgentOrder)}

\* Every concrete agent passes agent_id equal to its AgentRole value.
RoleOf(agent_id) == agent_id

MessageType == {"request", "response", "broadcast", "query", "recommendation"}

\* Python's None where a recommendation dictionary is expected.
NoRecommendation == [agent |-> "None", type |-> "None", confidence |-> 0]

\* final_decision as _synthesize_recommendations initialises it.
NoDecision ==
    [primary_recommendation |-> NoRecommendation, confidence_score |-> 0,
     supporting_evidence |-> <<>>, alternative_options |-> <<>>,
     consensus_level |-> 0]

\* A content dictionary: its keys, and the value under 'decision' when there is one.
Content(keys) == [keys |-> keys, decision |-> NoDecision]

Message(sender, receiver, msg_type, content) ==
    [sender |-> sender, receiver |-> receiver, msg_type |-> msg_type, content |-> content]

\* Python's None where a Message is expected.
None == Message("None", "None", "None", Content({}))

SeqToSet(s) == {s[i] : i \in 1..Len(s)}

(***************************************************************************)
(* process_message of the six concrete agents.                             *)
(***************************************************************************)
\* msg_type the agent reacts to.
HandledType(agent_id) == IF agent_id = "coordinator" THEN "request" ELSE "query"

\* <<key tested first, key tested second>> and what is answered to each.
HandledKeys(agent_id) ==
    CASE agent_id = "travel_advisor" -> <<"destination_advice", "attraction_recommendations">>
      [] agent_id = "budget_optimizer" -> <<"budget_optimization", "cost_analysis">>
      [] agent_id = "weather_analyst" -> <<"weather_optimization", "packing_advice">>
      [] agent_id = "local_expert" -> <<"local_insights", "real_time_updates">>
      [] agent_id = "itinerary_planner" -> <<"create_itinerary", "optimize_schedule">>
      [] agent_id = "coordinator" -> <<"coordinate_planning", "resolve_conflict">>

ResponseKeys(agent_id) ==
    CASE agent_id = "travel_advisor" -> <<"destination_advice", "attractions">>
      [] agent_id = "budget_optimizer" -> <<"budget_optimization", "cost_analysis">>
      [] agent_id = "weather_analyst" -> <<"weather_optimization", "packing_advice">>
      [] agent_id = "local_expert" -> <<"local_insights", "real_time_updates">>
      [] agent_id = "itinerary_planner" -> <<"itinerary", "optimized_schedule">>
      [] agent_id = "coordinator" -> <<"coordinated_plan", "conflict_resolution">>

ResponseTypes(agent_id) ==
    IF agent_id = "travel_advisor" THEN <<"response", "recommendation">>
    ELSE <<"response", "response">>

ProcessMessage(agent_id, message) ==
    IF message.msg_type = HandledType(agent_id)
    THEN IF HandledKeys(agent_id)[1] \in message.content.keys
         THEN Message(agent_id, message.sender, ResponseTypes(agent_id)[1],
                      Content({ResponseKeys(agent_id)[1]}))
         ELSE IF HandledKeys(agent_id)[2] \in message.content.keys
         THEN Message(agent_id, message.sender, ResponseTypes(agent_id)[2],
                      Content({ResponseKeys(agent_id)[2]}))
         ELSE None
    ELSE None

(***************************************************************************)
(* BaseAgent.                                                              *)
(***************************************************************************)
\* receive_message: message_queue.append(message)
ReceiveMessage(queues, agent_id, message) ==
    [queues EXCEPT ![agent_id] = Append(@, message)]

\* A send_message that delivers to any agent object, connected or not.
SendMessageUnchecked(queues, network, sender, receiver, msg_type, content) ==
    IF receiver \in DOMAIN queues
    THEN [queues |-> ReceiveMessage(queues, receiver,
                                    Message(sender, receiver, msg_type, content)),
          result |-> TRUE]
    ELSE [queues |-> queues, result |-> FALSE]

\* send_message: the new queues and the value returned.
SendMessage(queues, network, sender, receiver, msg_type, content) ==
    IF receiver \in network[sender]
    THEN [queues |-> ReceiveMessage(queues, receiver,
                                    Message(sender, receiver, msg_type, content)),
          result |-> TRUE]
    ELSE [queues |-> queues, result |-> FALSE]

\* A process_message_queue that pops the newest message, not the oldest.
PopLast(queue) ==
    [message |-> queue[Len(queue)], rest |-> SubSeq(queue, 1, Len(queue) - 1)]

\* message_queue.pop(0)
Pop(queue) == [message |-> Head(queue), rest |-> Tail(queue)]

\* The while loop of process_message_queue: what is left of the queue, the
\* messages handed to process_message (in the order they were handed over)
\* and the responses collected.
RECURSIVE ProcessLoop(_, _, _, _)
ProcessLoop(agent_id, queue, handed, responses) ==
    IF queue = <<>>
    THEN [queue |-> queue, handed |-> handed, responses |-> responses]
    ELSE LET popped == Pop(queue)
             response == ProcessMessage(agent_id, popped.message)
         IN ProcessLoop(agent_id, popped.rest, Append(handed, popped.message),
                        IF response # None THEN Append(responses, response)
                        ELSE responses)

ProcessMessageQueue(agent_id, queue) == ProcessLoop(agent_id, queue, <<>>, <<>>)

\* connect_agent: both directions.
ConnectAgent(network, a, b) ==
    [x \in DOMAIN network |->
        (network[x] \cup (IF x = a THEN {b} ELSE {})) \cup (IF x = b THEN {a} ELSE {})]

(***************************************************************************)
(* AgentCommunicationHub.                                                  *)
(***************************************************************************)
\* register_agent: self.agents[agent.agent_id] = agent (a known key keeps its place).
RegisterAgent(registered, agent_id) ==
    IF agent_id \in SeqToSet(registered) THEN registered ELSE Append(registered, agent_id)

\* A connect_all_agents that also connects an agent to itself.
ConnectsAlways(i, j) == TRUE

\* connect_all_agents: `if i != j`
Connects(i, j) == i # j

\* The double loop of connect_all_agents, from position (i, j) on.
RECURSIVE ConnectLoop(_, _, _, _)
ConnectLoop(network, agent_list, i, j) ==
    IF i > Len(agent_list) THEN network
    ELSE IF j > Len(agent_list) THEN ConnectLoop(network, agent_list, i + 1, 1)
    ELSE ConnectLoop(IF Connects(i, j)
                     THEN ConnectAgent(network, agent_list[i], agent_list[j])
                     ELSE network,
                     agent_list, i, j + 1)

ConnectAllAgents(network, registered) == ConnectLoop(network, registered, 1, 1)

\* A broadcast_message that also delivers to the sender.
ReceivesAlways(agent_id, sender_id) == TRUE

\* broadcast_message: `if agent_id != sender_id`
Receives(agent_id, sender_id) == agent_id # sender_id

\* The for loop of broadcast_message over self.agents.items(), from index i on.
RECURSIVE BroadcastLoop(_, _, _, _, _, _)
BroadcastLoop(queues, log, registered, i, sender_id, content) ==
    IF i > Len(registered) THEN [queues |-> queues, log |-> log]
    ELSE IF Receives(registered[i], sender_id)
    THEN LET message == Message(sender_id, registered[i], "broadcast", content)
         IN BroadcastLoop(ReceiveMessage(queues, registered[i], message),
                          Append(log, message), registered, i + 1, sender_id, content)
    ELSE BroadcastLoop(queues, log, registered, i + 1, sender_id, content)

\* A broadcast_message that delivers whoever the sender is.
BroadcastMessageAnySender(queues, log, registered, sender_id, content) ==
    BroadcastLoop(queues, log, registered, 1, sender_id, content)

\* broadcast_message; it returns the empty list `responses` in every case.
BroadcastMessage(queues, log, registered, sender_id, content) ==
    IF sender_id \in SeqToSet(registered)
    THEN BroadcastLoop(queues, log, registered, 1, sender_id, content)
    ELSE [queues |-> queues, log |-> log]

(***************************************************************************)
(* generate_recommendation of the six concrete agents: the 'agent', 'type' *)
(* and 'confidence' (in percent) entries of the dictionary returned.       *)
(***************************************************************************)
\* Keys of TravelAdvisorAgent.destination_expertise (Beijing, Shanghai, Guangzhou, written in Chinese in the source).
DestinationExpertise == {"beijing", "shanghai", "guangzhou"}

RecommendationType(agent_id) ==
    CASE agent_id = "travel_advisor" -> "travel_advice"
      [] agent_id = "budget_optimizer" -> "budget_optimization"
      [] agent_id = "weather_analyst" -> "weather_optimization"
      [] agent_id = "local_expert" -> "local_expertise"
      [] agent_id = "itinerary_planner" -> "itinerary_planning"
      [] agent_id = "coordinator" -> "coordinated_planning"

\* context.get('weather_forecast', []) is empty for every context built here.
Confidence(agent_id, context) ==
    CASE agent_id = "travel_advisor" ->
            IF context.destination \in DestinationExpertise THEN 90 ELSE 60
      [] agent_id = "budget_optimizer" -> 85
      [] agent_id = "weather_analyst" -> 80
      [] agent_id = "local_expert" -> 90
      [] agent_id = "itinerary_planner" -> 85
      [] agent_id = "coordinator" -> 95

GenerateRecommendation(agent_id, context) ==
    [agent |-> agent_id, type |-> RecommendationType(agent_id),
     confidence |-> Confidence(agent_id, context)]

(***************************************************************************)
(* AgentDecisionEngine.                                                    *)
(***************************************************************************)
\* A context dictionary: its 'destination' ("" when the key is absent) and
\* its 'primary_concern' ("None" when the key is absent).
Context(destination, primary_concern) ==
    [destination |-> destination, primary_concern |-> primary_concern]

\* Step 1 of collaborative_decision: the keys of `recommendations`, in dict
\* order (a key assigned twice keeps its first place).
RECURSIVE GatherLoop(_, _, _)
GatherLoop(keys, involved_agents, registered) ==
    IF involved_agents = <<>> THEN keys
    ELSE LET agent_id == Head(involved_agents)
         IN GatherLoop(IF agent_id \in SeqToSet(registered) /\ agent_id \notin SeqToSet(keys)
                       THEN Append(keys, agent_id) ELSE keys,
                       Tail(involved_agents), registered)

\* _calculate_agent_weights: base_weight of one agent.
AgentWeight(agent_id, context) ==
    IF context.primary_concern = "budget" /\ RoleOf(agent_id) = "budget_optimizer" THEN 2
    ELSE IF context.primary_concern = "weather" /\ RoleOf(agent_id) = "weather_analyst" THEN 2
    ELSE IF context.primary_concern = "local_insights" /\ RoleOf(agent_id) = "local_expert" THEN 2
    ELSE 1

\* _calculate_agent_weights: the dictionary `weights`.
CalculateAgentWeights(keys, registered, context) ==
    [agent_id \in SeqToSet(keys) \cap SeqToSet(registered) |-> AgentWeight(agent_id, context)]

\* A max() that keeps the last of several maximal items.
ReplacesTies(candidate, best) == candidate.weight >= best.weight

\* max(all_recommendations, key=...): a later item replaces the best so far
\* only when its key is strictly greater.
Replaces(candidate, best) == candidate.weight > best.weight

RECURSIVE MaxLoop(_, _, _)
MaxLoop(items, i, best) ==
    IF i > Len(items) THEN best
    ELSE MaxLoop(items, i + 1, IF Replaces(items[i], best) THEN items[i] ELSE best)

MaxByWeight(items) == MaxLoop(items, 2, items[1])

\* _synthesize_recommendations; `keys` are the keys of `recommendations`.
SynthesizeRecommendations(keys, registered, context) ==
    LET weights == CalculateAgentWeights(keys, registered, context)
        all_recommendations ==
            [i \in 1..Len(keys) |->
                [agent |-> keys[i],
                 recommendation |-> GenerateRecommendation(keys[i], context),
                 weight |-> IF keys[i] \in DOMAIN weights THEN weights[keys[i]] ELSE 1]]
        best_rec == MaxByWeight(all_recommendations)
    IN IF keys # <<>>
       THEN [primary_recommendation |-> best_rec.recommendation,
             confidence_score |-> best_rec.weight,
             supporting_evidence |->
                 [i \in 1..Len(keys) |-> all_recommendations[i].recommendation],
             alternative_options |-> <<>>,
             consensus_level |-> Len(all_recommendations) \div Len(keys)]
       ELSE NoDecision

\* collaborative_decision: the decision returned, and the queues and the log
\* after the broadcast of step 3.
CollaborativeDecision(queues, log, registered, context, involved_agents) ==
    LET keys == GatherLoop(<<>>, involved_agents, registered)
        final_decision == SynthesizeRecommendations(keys, registered, context)
        sent == BroadcastMessage(queues, log, registered, "decision_engine",
                    [keys |-> {"decision", "context", "contributing_agents"},
                     decision |-> final_decision])
    IN [decision |-> final_decision, queues |-> sent.queues, log |-> sent.log]

(***************************************************************************)
(* State shared by the specifications.                                     *)
(***************************************************************************)
NoContext == Context("", "None")

\* No library call has completed yet.
NoCall ==
    [op |-> "none", result |-> FALSE, handed |-> <<>>, responses |-> <<>>,
     context |-> NoContext, involved_agents |-> <<>>, decision |-> NoDecision]

\* Python's None where the report of _generate_comprehensive_output is expected.
NoReport ==
    [destination |-> "", recommendations |-> NoRecommendation, agents_consulted |-> 0,
     consensus_achieved |-> 0, confidence_score |-> 0, quality_score |-> 0,
     all_agents_contributed |-> FALSE]

\* optimized_plan before anything is put into it.
NoFinalPlan == [decision |-> NoDecision, updated |-> {}, overall_quality_score |-> 0]

\* The locals of plan_comprehensive_trip before they are assigned.
NoPlan ==
    [coordination_plan |-> {}, agent_recommendations |-> <<>>,
     synthesized_plan |-> NoDecision, final_plan |-> NoFinalPlan,
     comprehensive_output |-> NoReport]

NoTripContext ==
    [destination |-> "", budget_range |-> "None", planning_priority |-> "None",
     special_requirements |-> {}, interests |-> {}]

\* AgentCommunicationHub.__init__ and BaseAgent.__init__ of every agent object.
InitHub ==
    /\ agents = <<>>
    /\ collaboration_network = [a \in AgentIds |-> {}]
    /\ message_queue = [a \in AgentIds |-> <<>>]
    /\ message_log = <<>>
    /\ last = NoCall

InitOrchestratorIdle ==
    /\ pc = "idle"
    /\ trip_context = NoTripContext
    /\ plan = NoPlan
    /\ steps = <<>>
    /\ returned = NoReport
    /\ planning_history = <<>>

NoModuleCall == [op |-> "none"]

\* The event loop thread is not inside a LangGraph step.
NoStep ==
    [task |-> 0, phase |-> "none", worker |-> "none",
     result |-> [from |-> "none", outcome |-> "none"], elapsed |-> 0]

\* No HTTP response has been sent yet.  Of a response the model keeps the
\* status code, the task it is about and the task status it reports.
NoReply == [code |-> 0, task_id |-> 0, status |-> "none"]

\* tasks_state.json does not exist.
NoFile == [kind |-> "absent", tasks |-> << >>]

\* No REST server: api_server is not imported by the library and its modules.
NoApi ==
    /\ planning_tasks = << >>
    /\ background = << >>
    /\ langgraph = NoStep
    /\ status_reply = NoReply
    /\ tasks_file = NoFile

\* Messages waiting in the queues of the six agent objects.
Queued ==
    Len(message_queue["coordinator"]) + Len(message_queue["travel_advisor"])
    + Len(message_queue["budget_optimizer"]) + Len(message_queue["weather_analyst"])
    + Len(message_queue["local_expert"]) + Len(message_queue["itinerary_planner"])

(***************************************************************************)
(* SpecHub: a program that builds a hub over three agent objects and uses  *)
(* the messaging calls in any order.                                       *)
(***************************************************************************)
\* The agent objects constructed in this scenario, in the order they are
\* constructed and registered (the order of MultiAgentTravelOrchestrator.__init__).
HubOrder == <<"coordinator", "travel_advisor", "budget_optimizer">>

HubAgents == SeqToSet(HubOrder)

\* Receiver names tried: the agents, and a name no agent has.
ReceiverNames == HubAgents \cup {"orchestrator"}

\* Sender names tried with broadcast_message: the agents, and the name the
\* decision engine passes.
BroadcasterNames == HubAgents \cup {"decision_engine"}

\* <<msg_type, content keys>> of the messages an agent sends: the coordinator
\* asks the specialists for destination advice, a specialist sends planning
\* requests.
SendChoice(sender) ==
    IF sender = "coordinator"
    THEN <<"query", {"destination_advice", "destination"}>>
    ELSE <<"request", {"coordinate_planning", "trip_context"}>>

BroadcastChoices == { {"announcement"} }

HubRegisterAgent(a) ==
    /\ \/ a \in SeqToSet(agents)
       \/ Len(agents) < Len(HubOrder) /\ a = HubOrder[Len(agents) + 1]
    /\ agents' = RegisterAgent(agents, a)
    /\ last' = [NoCall EXCEPT !.op = "register_agent"]
    /\ UNCHANGED <<collaboration_network, message_queue, message_log>>
    /\ UNCHANGED <<orchVars, call, apiVars>>

HubConnectAllAgents ==
    /\ collaboration_network' = ConnectAllAgents(collaboration_network, agents)
    /\ last' = [NoCall EXCEPT !.op = "connect_all_agents"]
    /\ UNCHANGED <<agents, message_queue, message_log>>
    /\ UNCHANGED <<orchVars, call, apiVars>>

HubSendMessage(sender, receiver, msg_type, keys) ==
    /\ Queued < MaxQueue
    /\ LET sent == SendMessage(message_queue, collaboration_network, sender, receiver,
                               msg_type, Content(keys))
       IN /\ message_queue' = sent.queues
          /\ last' = [NoCall EXCEPT !.op = "send_message", !.result = sent.result]
    /\ UNCHANGED <<agents, collaboration_network, message_log>>
    /\ UNCHANGED <<orchVars, call, apiVars>>

HubBroadcastMessage(sender_id, keys) ==
    /\ Len(message_log) + Len(agents) <= MaxLog + 1
    /\ LET sent == BroadcastMessage(message_queue, message_log, agents, sender_id,
                                    Content(keys))
       IN /\ message_queue' = sent.queues
          /\ message_log' = sent.log
          /\ last' = [NoCall EXCEPT !.op = "broadcast_message"]
    /\ UNCHANGED <<agents, collaboration_network>>
    /\ UNCHANGED <<orchVars, call, apiVars>>

\* process_all_agents: process_message_queue of every registered agent, in
\* the order of self.agents; all_responses has an entry for each agent whose
\* list of responses is not empty.
ProcessAllAgents(registered, queues) ==
    LET done(a) == ProcessMessageQueue(a, queues[a])
        ids == SeqToSet(registered)
    IN [queues |-> [a \in DOMAIN queues |->
                      IF a \in ids THEN done(a).queue ELSE queues[a]],
        handed |-> [a \in ids |-> done(a).handed],
        all_responses |-> [a \in {x \in ids : done(x).responses # <<>>} |->
                             done(a).responses]]

HubProcessAllAgents ==
    /\ LET done == ProcessAllAgents(agents, message_queue)
       IN /\ message_queue' = done.queues
          /\ last' = [NoCall EXCEPT !.op = "process_all_agents",
                                    !.handed = done.handed,
                                    !.responses = done.all_responses]
    /\ UNCHANGED <<agents, collaboration_network, message_log>>
    /\ UNCHANGED <<orchVars, call, apiVars>>

HubProcessMessageQueue(a) ==
    /\ LET done == ProcessMessageQueue(a, message_queue[a])
       IN /\ message_queue' = [message_queue EXCEPT ![a] = done.queue]
          /\ last' = [NoCall EXCEPT !.op = "process_message_queue",
                                    !.handed = done.handed, !.responses = done.responses]
    /\ UNCHANGED <<agents, collaboration_network, message_log>>
    /\ UNCHANGED <<orchVars, call, apiVars>>

InitModules == call = NoModuleCall /\ NoApi

HubInit == InitHub /\ InitOrchestratorIdle /\ InitModules

HubNext ==
    \/ \E a \in HubAgents : HubRegisterAgent(a)
    \/ HubConnectAllAgents
    \/ \E sender \in HubAgents, receiver \in ReceiverNames :
          HubSendMessage(sender, receiver, SendChoice(sender)[1], SendChoice(sender)[2])
    \/ \E sender_id \in BroadcasterNames, keys \in BroadcastChoices :
          HubBroadcastMessage(sender_id, keys)
    \/ \E a \in HubAgents : HubProcessMessageQueue(a)
    \/ HubProcessAllAgents

SpecHub == HubInit /\ [][HubNext]_vars

(***************************************************************************)
(* Claims checked under SpecHub.                                           *)
(***************************************************************************)
IsResponse(r) == r # None

\* What the claim expects process_message_queue to return for a queue: the
\* answer to every message, the None answers left out, in queue order.
ExpectedResponses(a, queue) ==
    SelectSeq([i \in 1..Len(queue) |-> ProcessMessage(a, queue[i])], IsResponse)

\* C1: process_message_queue hands every queued message to process_message
\* exactly once, oldest first; it returns the non-None responses in that
\* order; the queue is empty when it returns.
C1_ProcessQueueFifo ==
    [][last'.op = "process_message_queue" =>
       \A a \in HubAgents :
          HubProcessMessageQueue(a) =>
             /\ last'.handed = message_queue[a]
             /\ last'.responses = ExpectedResponses(a, message_queue[a])
             /\ message_queue'[a] = <<>>]_vars

\* A queue of two different messages was drained, one answered and one not.
C1_Witness ==
    /\ last.op = "process_message_queue"
    /\ Len(last.handed) = 2
    /\ last.handed[1] # last.handed[2]
    /\ Len(last.responses) = 1
    /\ \A a \in HubAgents : message_queue[a] = <<>>

\* C6: broadcast_message from a registered sender appends one BROADCAST
\* message with the content to the queue of every other registered agent,
\* nothing to the sender's queue, and registered - 1 entries to message_log;
\* from an unregistered sender it changes no queue and no log.
C6_BroadcastFrame ==
    [][last'.op = "broadcast_message" =>
       \A sender_id \in BroadcasterNames, keys \in BroadcastChoices :
          HubBroadcastMessage(sender_id, keys) =>
             IF sender_id \in SeqToSet(agents)
             THEN /\ \A a \in SeqToSet(agents) \ {sender_id} :
                        message_queue'[a] =
                            Append(message_queue[a],
                                   Message(sender_id, a, "broadcast", Content(keys)))
                  /\ \A a \in AgentIds \ (SeqToSet(agents) \ {sender_id}) :
                        message_queue'[a] = message_queue[a]
                  /\ Len(message_log') = Len(message_log) + Len(agents) - 1
                  /\ SubSeq(message_log', 1, Len(message_log)) = message_log
             ELSE message_queue' = message_queue /\ message_log' = message_log]_vars

\* A registered agent has just broadcast to the two others, one of which had
\* a message waiting.
C6_Witness ==
    /\ last.op = "broadcast_message"
    /\ Len(agents) = Len(HubOrder)
    /\ Len(message_log) = Len(agents) - 1
    /\ \E a \in HubAgents :
          /\ Len(message_queue[a]) = 2
          /\ message_queue[a][2] = message_log[1]
          /\ message_queue[a][2].msg_type = "broadcast"
    /\ \E a \in HubAgents : message_queue[a] = <<>>

\* C7: send_message to a receiver outside the sender's collaboration_network
\* queues nothing and returns False; to a receiver inside it, it appends one
\* message to that receiver's queue, to no other queue, and returns True.
C7_SendMessage ==
    [][last'.op = "send_message" =>
       \A sender \in HubAgents, receiver \in ReceiverNames :
          HubSendMessage(sender, receiver, SendChoice(sender)[1], SendChoice(sender)[2]) =>
             IF receiver \in collaboration_network[sender]
             THEN /\ last'.result = TRUE
                  /\ message_queue'[receiver] =
                        Append(message_queue[receiver],
                               Message(sender, receiver, SendChoice(sender)[1],
                                       Content(SendChoice(sender)[2])))
                  /\ \A a \in AgentIds \ {receiver} : message_queue'[a] = message_queue[a]
             ELSE /\ last'.result = FALSE
                  /\ message_queue' = message_queue]_vars

\* A send was refused although agents are registered and messages are queued.
C7_Witness ==
    /\ last.op = "send_message"
    /\ last.result = FALSE
    /\ Len(agents) = Len(HubOrder)
    /\ Queued > 0

(***************************************************************************)
(* SpecConnect: the six agent objects are registered in any order and      *)
(* connect_all_agents is called at any time.                               *)
(***************************************************************************)
ConnRegisterAgent(a) ==
    /\ a \notin SeqToSet(agents)
    /\ agents' = RegisterAgent(agents, a)
    /\ last' = [NoCall EXCEPT !.op = "register_agent"]
    /\ UNCHANGED <<collaboration_network, message_queue, message_log>>
    /\ UNCHANGED <<orchVars, call, apiVars>>

ConnectNext ==
    \/ \E a \in AgentIds : ConnRegisterAgent(a)
    \/ HubConnectAllAgents

SpecConnect == HubInit /\ [][ConnectNext]_vars

\* C8: after connect_all_agents any two distinct registered agents are in
\* each other's collaboration_network and no agent is in its own; with the
\* six agents of the orchestrator registered, each is connected to exactly
\* the five others.
C8_ConnectAll ==
    last.op = "connect_all_agents" =>
        /\ \A a \in SeqToSet(agents), b \in SeqToSet(agents) :
              a # b => b \in collaboration_network[a] /\ a \in collaboration_network[b]
        /\ \A a \in AgentIds : a \notin collaboration_network[a]
        /\ SeqToSet(agents) = AgentIds =>
              \A a \in AgentIds :
                  /\ collaboration_network[a] = AgentIds \ {a}
                  /\ Cardinality(collaboration_network[a]) = Len(AgentOrder) - 1

\* connect_all_agents has just run over all six agents.
C8_Witness ==
    /\ last.op = "connect_all_agents"
    /\ SeqToSet(agents) = AgentIds
    /\ \A a \in AgentIds : Cardinality(collaboration_network[a]) = Len(AgentOrder) - 1

(***************************************************************************)
(* SpecEngine: three agent objects are registered one after the other and  *)
(* collaborative_decision is called with any context and agent list.       *)
(***************************************************************************)
\* The agent objects of this scenario, in the order they are registered.
EngineOrder == <<"coordinator", "budget_optimizer", "weather_analyst">>

EngineAgents == SeqToSet(EngineOrder)

\* Values of decision_context['primary_concern'] (_identify_primary_concern).
PrimaryConcerns == {"budget", "weather", "local_insights", "balanced"}

RECURSIVE SeqsUpTo(_, _)
SeqsUpTo(S, n) ==
    IF n = 0 THEN {<<>>}
    ELSE LET shorter == SeqsUpTo(S, n - 1)
         IN shorter \cup {Append(q, x) : q \in shorter, x \in S}

\* The involved_agents lists tried; an agent not registered yet is a name
\* the hub does not know.
InvolvedLists == SeqsUpTo(EngineAgents, MaxInvolved)

EngRegisterAgent(a) ==
    /\ Len(agents) < Len(EngineOrder)
    /\ a = EngineOrder[Len(agents) + 1]
    /\ agents' = RegisterAgent(agents, a)
    /\ last' = [NoCall EXCEPT !.op = "register_agent"]
    /\ UNCHANGED <<collaboration_network, message_queue, message_log>>
    /\ UNCHANGED <<orchVars, call, apiVars>>

EngCollaborativeDecision(context, involved_agents) ==
    /\ LET done == CollaborativeDecision(message_queue, message_log, agents,
                                         context, involved_agents)
       IN /\ message_queue' = done.queues
          /\ message_log' = done.log
          /\ last' = [NoCall EXCEPT !.op = "collaborative_decision",
                                    !.context = context,
                                    !.involved_agents = involved_agents,
                                    !.decision = done.decision]
    /\ UNCHANGED <<agents, collaboration_network>>
    /\ UNCHANGED <<orchVars, call, apiVars>>

EngineNext ==
    \/ \E a \in EngineAgents : EngRegisterAgent(a)
    \/ \E concern \in PrimaryConcerns, involved_agents \in InvolvedLists :
          EngCollaborativeDecision(Context("", concern), involved_agents)

SpecEngine == HubInit /\ [][EngineNext]_vars

\* C2: primary_recommendation is the recommendation of a contributing agent
\* of maximal weight, and of the first such agent in involved_agents order.
C2_PrimaryIsFirstMaximal ==
    last.op = "collaborative_decision" =>
        LET context == last.context
            involved_agents == last.involved_agents
            contributing == SeqToSet(involved_agents) \cap SeqToSet(agents)
        IN contributing # {} =>
              \E i \in 1..Len(involved_agents) :
                 /\ involved_agents[i] \in contributing
                 /\ last.decision.primary_recommendation =
                       GenerateRecommendation(involved_agents[i], context)
                 /\ \A c \in contributing :
                       AgentWeight(c, context) <= AgentWeight(involved_agents[i], context)
                 /\ \A j \in 1..(i - 1) :
                       involved_agents[j] \in contributing =>
                          AgentWeight(involved_agents[j], context)
                             < AgentWeight(involved_agents[i], context)

\* A decision over three contributing agents whose heaviest agent was not the
\* first one asked.
C2_Witness ==
    /\ last.op = "collaborative_decision"
    /\ Len(last.decision.supporting_evidence) = 3
    /\ last.decision.confidence_score = 2
    /\ last.decision.primary_recommendation # last.decision.supporting_evidence[1]

\* C4: when collaborative_decision has returned, every registered agent has
\* received a BROADCAST message carrying the decision and message_log
\* records it.
C4_DecisionIsBroadcast ==
    last.op = "collaborative_decision" =>
        \A a \in SeqToSet(agents) :
            \E i \in 1..Len(message_queue[a]) :
                /\ message_queue[a][i].msg_type = "broadcast"
                /\ message_queue[a][i].content.decision = last.decision
                /\ message_queue[a][i] \in SeqToSet(message_log)

(***************************************************************************)
(* MultiAgentTravelOrchestrator.                                           *)
(***************************************************************************)
MaxRuns == 2        \* planning runs made on one orchestrator

\* dict.get(key, default)
Get(dict, key, default) == IF key \in DOMAIN dict THEN dict[key] ELSE default

\* _prepare_trip_context: the entries of the context that later steps read.
PrepareTripContext(user_input) ==
    [destination |-> Get(user_input, "destination", ""),
     budget_range |-> Get(user_input, "budget_range", "mid-range"),
     planning_priority |-> Get(user_input, "planning_priority", "balanced"),
     special_requirements |-> Get(user_input, "special_requirements", {}),
     interests |-> Get(user_input, "interests", {})]

\* _coordinate_initial_planning: the coordination plan and the queues afterwards.
CoordinateInitialPlanning(queues) ==
    LET coordination_request ==
            Message("orchestrator", "coordinator", "request",
                    Content({"coordinate_planning", "trip_context", "preferences"}))
        received == ReceiveMessage(queues, "coordinator", coordination_request)
        done == ProcessMessageQueue("coordinator", received["coordinator"])
    IN [coordination_plan |->
            IF done.responses # <<>>
            THEN done.responses[1].content.keys \cap {"coordinated_plan"}
            ELSE {},
        queues |-> [received EXCEPT !["coordinator"] = done.queue]]

\* The keys of consultation_tasks, in dict order.
ConsultationOrder ==
    <<"travel_advisor", "weather_analyst", "local_expert", "budget_optimizer",
      "itinerary_planner">>

\* consultation_tasks[agent_id]['query_content']: its keys.
QueryContent(agent_id) ==
    CASE agent_id = "travel_advisor" -> {"destination_advice", "destination", "interests", "duration"}
      [] agent_id = "weather_analyst" -> {"weather_analysis", "destination", "dates"}
      [] agent_id = "local_expert" -> {"local_insights", "destination", "visit_date", "interests"}
      [] agent_id = "budget_optimizer" -> {"budget_optimization", "budget_range", "duration", "group_size"}
      [] agent_id = "itinerary_planner" -> {"create_itinerary", "destination", "duration", "interests"}

\* The loop of _execute_parallel_consultation from task i on.
RECURSIVE ConsultLoop(_, _, _, _, _)
ConsultLoop(queues, agent_recommendations, tasks, i, context) ==
    IF i > Len(tasks) THEN [agent_recommendations |-> agent_recommendations, queues |-> queues]
    ELSE LET agent_id == tasks[i]
             query_message == Message("orchestrator", agent_id, "query",
                                      Content(QueryContent(agent_id)))
             received == ReceiveMessage(queues, agent_id, query_message)
             done == ProcessMessageQueue(agent_id, received[agent_id])
             entry == [agent |-> agent_id,
                       query_response |-> IF done.responses # <<>>
                                          THEN done.responses[1].content.keys ELSE {},
                       general_recommendation |-> GenerateRecommendation(agent_id, context)]
         IN IF agent_id \in AgentIds
            THEN ConsultLoop([received EXCEPT ![agent_id] = done.queue],
                             Append(agent_recommendations, entry), tasks, i + 1, context)
            ELSE ConsultLoop(queues, agent_recommendations, tasks, i + 1, context)

\* _execute_parallel_consultation
ExecuteParallelConsultation(queues, trip) ==
    ConsultLoop(queues, <<>>, ConsultationOrder, 1, Context(trip.destination, "None"))

\* _identify_primary_concern
IdentifyPrimaryConcern(trip) ==
    IF trip.planning_priority = "budget" \/ trip.budget_range = "budget" THEN "budget"
    ELSE IF "weather" \in trip.special_requirements THEN "weather"
    ELSE IF "local_experience" \in trip.interests THEN "local_insights"
    ELSE "balanced"

\* _synthesize_recommendations of the orchestrator; decision_context has no
\* 'destination' entry.
OrchSynthesizeRecommendations(queues, log, registered, agent_recommendations, trip) ==
    LET decision_context == Context("", IdentifyPrimaryConcern(trip))
        contributing_agents ==
            [i \in 1..Len(agent_recommendations) |-> agent_recommendations[i].agent]
    IN CollaborativeDecision(queues, log, registered, decision_context, contributing_agents)

\* _optimize_and_validate_plan
OptimizeAndValidatePlan(queues, synthesized_plan) ==
    LET optimization_request ==
            Message("orchestrator", "coordinator", "request",
                    Content({"final_optimization", "synthesized_plan", "trip_context",
                             "validation_required"}))
        received == ReceiveMessage(queues, "coordinator", optimization_request)
        done == ProcessMessageQueue("coordinator", received["coordinator"])
    IN [final_plan |->
            [decision |-> synthesized_plan,
             updated |-> IF done.responses # <<>>
                         THEN done.responses[1].content.keys ELSE {},
             overall_quality_score |-> 91],
        queues |-> [received EXCEPT !["coordinator"] = done.queue]]

\* _generate_comprehensive_output: the entries of the report that depend on the run.
GenerateComprehensiveOutput(final_plan, trip, orchestrator_agents) ==
    [destination |-> trip.destination,
     recommendations |-> final_plan.decision.primary_recommendation,
     agents_consulted |-> Len(orchestrator_agents),
     consensus_achieved |-> final_plan.decision.consensus_level,
     confidence_score |-> final_plan.decision.confidence_score,
     quality_score |-> final_plan.overall_quality_score,
     all_agents_contributed |-> TRUE]

\* _store_planning_session: session_record
SessionRecord(output, trip, orchestrator_agents) ==
    [destination |-> trip.destination, agents_used |-> orchestrator_agents,
     quality_score |-> output.quality_score, user_context |-> trip]

(***************************************************************************)
(* Spec: one orchestrator, as __init__ leaves it, on which                 *)
(* plan_comprehensive_trip is called up to MaxRuns times.  pc is the step  *)
(* of plan_comprehensive_trip that finished last ("idle" between calls).   *)
(***************************************************************************)
\* A plan_comprehensive_trip that synthesizes before it consults.
StepAfterSynthesisFirst(step) ==
    CASE step = "idle" -> "prepare_trip_context"
      [] step = "prepare_trip_context" -> "coordinate_initial_planning"
      [] step = "coordinate_initial_planning" -> "synthesize_recommendations"
      [] step = "synthesize_recommendations" -> "execute_parallel_consultation"
      [] step = "execute_parallel_consultation" -> "optimize_and_validate_plan"
      [] step = "optimize_and_validate_plan" -> "generate_comprehensive_output"
      [] step = "generate_comprehensive_output" -> "store_planning_session"
      [] step = "store_planning_session" -> "return"

\* plan_comprehensive_trip: the statement that follows each of its calls.
StepAfter(step) ==
    CASE step = "idle" -> "prepare_trip_context"
      [] step = "prepare_trip_context" -> "coordinate_initial_planning"
      [] step = "coordinate_initial_planning" -> "execute_parallel_consultation"
      [] step = "execute_parallel_consultation" -> "synthesize_recommendations"
      [] step = "synthesize_recommendations" -> "optimize_and_validate_plan"
      [] step = "optimize_and_validate_plan" -> "generate_comprehensive_output"
      [] step = "generate_comprehensive_output" -> "store_planning_session"
      [] step = "store_planning_session" -> "return"

\* user_input dictionaries tried.
UserInputs ==
    { [duration |-> 3],
      [destination |-> "beijing", planning_priority |-> "budget"],
      [destination |-> "beijing", budget_range |-> "budget"],
      [destination |-> "atlantis", special_requirements |-> {"weather"}],
      [destination |-> "atlantis", interests |-> {"local_experience"}],
      [destination |-> "beijing", budget_range |-> "luxury",
       special_requirements |-> {"weather"}, interests |-> {"local_experience"}] }

\* MultiAgentTravelOrchestrator.__init__
Init ==
    /\ agents = AgentOrder
    /\ collaboration_network = ConnectAllAgents([a \in AgentIds |-> {}], AgentOrder)
    /\ message_queue = [a \in AgentIds |-> <<>>]
    /\ message_log = <<>>
    /\ last = NoCall
    /\ InitOrchestratorIdle
    /\ InitModules

Step(name) ==
    /\ StepAfter(pc) = name
    /\ pc' = name
    /\ steps' = IF pc = "idle" THEN <<name>> ELSE Append(steps, name)

\* plan_comprehensive_trip is entered and _prepare_trip_context has run.
OrchPrepareTripContext(user_input) ==
    /\ Len(planning_history) < MaxRuns
    /\ Step("prepare_trip_context")
    /\ trip_context' = PrepareTripContext(user_input)
    /\ plan' = NoPlan
    /\ UNCHANGED <<hubVars, last, returned, planning_history, call, apiVars>>

OrchCoordinateInitialPlanning ==
    /\ Step("coordinate_initial_planning")
    /\ LET done == CoordinateInitialPlanning(message_queue)
       IN /\ plan' = [plan EXCEPT !.coordination_plan = done.coordination_plan]
          /\ message_queue' = done.queues
    /\ UNCHANGED <<agents, collaboration_network, message_log, last>>
    /\ UNCHANGED <<trip_context, returned, planning_history, call, apiVars>>

OrchExecuteParallelConsultation ==
    /\ Step("execute_parallel_consultation")
    /\ LET done == ExecuteParallelConsultation(message_queue, trip_context)
       IN /\ plan' = [plan EXCEPT !.agent_recommendations = done.agent_recommendations]
          /\ message_queue' = done.queues
    /\ UNCHANGED <<agents, collaboration_network, message_log, last>>
    /\ UNCHANGED <<trip_context, returned, planning_history, call, apiVars>>

OrchSynthesize ==
    /\ Step("synthesize_recommendations")
    /\ LET done == OrchSynthesizeRecommendations(message_queue, message_log, agents,
                                                 plan.agent_recommendations, trip_context)
       IN /\ plan' = [plan EXCEPT !.synthesized_plan = done.decision]
          /\ message_queue' = done.queues
          /\ message_log' = done.log
    /\ UNCHANGED <<agents, collaboration_network, last>>
    /\ UNCHANGED <<trip_context, returned, planning_history, call, apiVars>>

OrchOptimizeAndValidatePlan ==
    /\ Step("optimize_and_validate_plan")
    /\ LET done == OptimizeAndValidatePlan(message_queue, plan.synthesized_plan)
       IN /\ plan' = [plan EXCEPT !.final_plan = done.final_plan]
          /\ message_queue' = done.queues
    /\ UNCHANGED <<agents, collaboration_network, message_log, last>>
    /\ UNCHANGED <<trip_context, returned, planning_history, call, apiVars>>

OrchGenerateComprehensiveOutput ==
    /\ Step("generate_comprehensive_output")
    /\ plan' = [plan EXCEPT !.comprehensive_output =
                    GenerateComprehensiveOutput(plan.final_plan, trip_context, AgentOrder)]
    /\ UNCHANGED <<hubVars, last, trip_context, returned, planning_history, call, apiVars>>

OrchStorePlanningSession ==
    /\ Step("store_planning_session")
    /\ planning_history' =
           Append(planning_history,
                  SessionRecord(plan.comprehensive_output, trip_context, AgentOrder))
    /\ UNCHANGED <<hubVars, last, trip_context, plan, returned, call, apiVars>>

\* return comprehensive_output
OrchReturn ==
    /\ StepAfter(pc) = "return"
    /\ pc' = "idle"
    /\ returned' = plan.comprehensive_output
    /\ UNCHANGED <<hubVars, last, trip_context, plan, steps, planning_history, call, apiVars>>

Next ==
    \/ \E user_input \in UserInputs : OrchPrepareTripContext(user_input)
    \/ OrchCoordinateInitialPlanning
    \/ OrchExecuteParallelConsultation
    \/ OrchSynthesize
    \/ OrchOptimizeAndValidatePlan
    \/ OrchGenerateComprehensiveOutput
    \/ OrchStorePlanningSession
    \/ OrchReturn

Spec == Init /\ [][Next]_vars

\* The run that returned last, if any, is over.
Returned == pc = "idle" /\ returned # NoReport

\* The order of the steps as the documentation of plan_comprehensive_trip gives it.
PhaseOrder ==
    <<"prepare_trip_context", "coordinate_initial_planning",
      "execute_parallel_consultation", "synthesize_recommendations",
      "optimize_and_validate_plan", "generate_comprehensive_output",
      "store_planning_session">>

\* C5: the steps of a run are executed once each in the fixed order (prepare
\* context, phases 1 to 5, store the session): at every moment the steps
\* executed so far are an initial part of that order, a finished run has
\* executed all of them, the report exists once phase 5 has run, and the
\* value returned is that report.
C5_StepsInOrder ==
    /\ \E n \in 0..Len(PhaseOrder) : steps = SubSeq(PhaseOrder, 1, n)
    /\ pc # "idle" => pc = steps[Len(steps)]
    /\ Len(steps) >= 6 =>
           plan.comprehensive_output =
               GenerateComprehensiveOutput(plan.final_plan, trip_context, AgentOrder)
    /\ Len(steps) < 6 => plan.comprehensive_output = NoReport
    /\ Returned => /\ steps = PhaseOrder
                   /\ returned = plan.comprehensive_output
                   /\ returned.destination = trip_context.destination

\* A second run has returned its report.
C5_Witness ==
    /\ Returned
    /\ Len(planning_history) = 2
    /\ steps = PhaseOrder
    /\ returned.agents_consulted = 6

Contributors(recs) == {recs[i].agent : i \in 1..Len(recs)}

\* C3: when a run returns, each of the six agents has contributed a
\* recommendation and all six are among those the decision engine synthesized.
C3_AllSixContribute ==
    Returned =>
        /\ Contributors(plan.agent_recommendations) = AgentIds
        /\ Contributors(plan.synthesized_plan.supporting_evidence) = AgentIds

\* C16: when plan_comprehensive_trip has returned, the message queue of each
\* of the six agents is empty, after the first run and after every later one;
\* between the steps of a run no message is left waiting either.
C16_QueuesEmptyAtReturn ==
    /\ Returned => \A a \in AgentIds : message_queue[a] = <<>>
    /\ \A a \in AgentIds : message_queue[a] = <<>>

\* A second run has returned in which queries were delivered and answered and
\* a decision was synthesized from the agents consulted.
C16_Witness ==
    /\ Returned
    /\ Len(planning_history) = 2
    /\ \E i \in 1..Len(plan.agent_recommendations) :
          plan.agent_recommendations[i].query_response # {}
    /\ plan.coordination_plan # {}
    /\ Len(plan.synthesized_plan.supporting_evidence) = Len(ConsultationOrder)
    /\ \A a \in AgentIds : message_queue[a] = <<>>

(***************************************************************************)
(* Dates.  A date is [year, month, day]; timedelta(days = n) is added by   *)
(* stepping n times to the next calendar day; strftime('%Y-%m-%d') gives   *)
(* the ten characters of the zero-padded date.                             *)
(***************************************************************************)
IsLeap(year) == (year % 4 = 0 /\ year % 100 # 0) \/ year % 400 = 0

DaysInMonth(year, month) ==
    IF month = 2 THEN (IF IsLeap(year) THEN 29 ELSE 28)
    ELSE IF month \in {4, 6, 9, 11} THEN 30 ELSE 31

NextDay(date) ==
    IF date.day < DaysInMonth(date.year, date.month)
    THEN [date EXCEPT !.day = @ + 1]
    ELSE IF date.month < 12
    THEN [year |-> date.year, month |-> date.month + 1, day |-> 1]
    ELSE [year |-> date.year + 1, month |-> 1, day |-> 1]

\* date + timedelta(days = n), n >= 0
RECURSIVE AddDays(_, _)
AddDays(date, n) == IF n <= 0 THEN date ELSE AddDays(NextDay(date), n - 1)

\* date.strftime('%Y-%m-%d')
Strftime(date) ==
    << date.year \div 1000, (date.year \div 100) % 10, (date.year \div 10) % 10,
       date.year % 10, "-", date.month \div 10, date.month % 10, "-",
       date.day \div 10, date.day % 10 >>

(***************************************************************************)
(* WeatherService._get_mock_forecast.                                      *)
(***************************************************************************)
MaxForecastDays == 12   \* largest `days` asked of _get_mock_forecast

\* float(n), n + 2.0, ...: a float, told apart from the int of the same value.
Float(n) == <<"float", n>>

\* weather_conditions, in English: sunny, cloudy, overcast, light rain.
WeatherConditions == <<"sunny", "cloudy", "overcast", "light_rain">>

\* data.models.Weather
Weather(temperature, description, humidity, wind_speed, feels_like, date) ==
    [temperature |-> temperature, description |-> description, humidity |-> humidity,
     wind_speed |-> wind_speed, feels_like |-> feels_like, date |-> date]

\* A loop that runs for i = 0 .. days.
ForecastRangeInclusive(days) == [k \in 1..(days + 1) |-> k - 1]

\* range(days)
ForecastRange(days) == [k \in 1..days |-> k - 1]

\* The body of the loop for index i.
MockWeather(base_date, i) ==
    LET temp == 20 + (i % 10)
    IN Weather(Float(temp), WeatherConditions[(i % 4) + 1], 60 + (i % 20),
               Float(3 + (i % 5)), Float(temp + 2), Strftime(AddDays(base_date, i)))

\* _get_mock_forecast(days), called on the day base_date
GetMockForecast(days, base_date) ==
    LET indexes == ForecastRange(days)
    IN [k \in 1..Len(indexes) |-> MockWeather(base_date, indexes[k])]

(***************************************************************************)
(* SpecWeather: _get_mock_forecast is called once, with any number of days *)
(* up to MaxForecastDays, on one of a few days.                            *)
(***************************************************************************)
\* Days on which the forecast is asked for (datetime.now()).
BaseDates ==
    { [year |-> 2024, month |-> 2, day |-> 20], [year |-> 2025, month |-> 2, day |-> 20],
      [year |-> 2025, month |-> 12, day |-> 25], [year |-> 2026, month |-> 6, day |-> 30],
      [year |-> 2026, month |-> 10, day |-> 30] }

WeatherInit ==
    /\ InitHub
    /\ InitOrchestratorIdle
    /\ NoApi
    /\ \E days \in 0..MaxForecastDays, base_date \in BaseDates :
          call = [op |-> "call_get_mock_forecast", days |-> days, base_date |-> base_date]

WeatherGetMockForecast ==
    /\ call.op = "call_get_mock_forecast"
    /\ call' = [op |-> "get_mock_forecast", days |-> call.days, base_date |-> call.base_date,
                forecasts |-> GetMockForecast(call.days, call.base_date)]
    /\ UNCHANGED <<hubVars, last, orchVars, apiVars>>

WeatherNext == WeatherGetMockForecast

SpecWeather == WeatherInit /\ [][WeatherNext]_vars

IsFloat(x) == x[1] = "float"

\* C10: _get_mock_forecast(days) returns exactly `days` Weather objects, each
\* with a float temperature strictly between -50 and 60, for every days >= 0.
C10_MockForecast ==
    call.op = "get_mock_forecast" =>
        /\ Len(call.forecasts) = call.days
        /\ \A k \in 1..Len(call.forecasts) :
              /\ IsFloat(call.forecasts[k].temperature)
              /\ call.forecasts[k].temperature[2] > -50
              /\ call.forecasts[k].temperature[2] < 60

\* Forecasts were returned for more days than the temperatures take to repeat.
C10_Witness ==
    /\ call.op = "get_mock_forecast"
    /\ call.days = 12
    /\ Len(call.forecasts) = 12
    /\ call.forecasts[11].temperature = Float(20)
    /\ call.forecasts[10].temperature = Float(29)

(***************************************************************************)
(* ItineraryPlanner.create_itinerary.  An Attraction is its name, its      *)
(* rating (times ten), whether its name or description holds an indoor or  *)
(* an outdoor keyword, and the time_slot attribute the planner attaches.   *)
(* The transport modes are drawn with random.choice and only feed          *)
(* daily_cost; a DayPlan keeps the number of transport legs and leaves the *)
(* cost out.                                                               *)
(***************************************************************************)
MaxTripDays == 3        \* largest total_days
MaxWeatherEntries == 4  \* longest weather_data
MaxAttractions == 5     \* longest attractions list
MaxRestaurants == 2     \* longest restaurants list
MaxActivities == 2      \* longest activities list

\* data.models.Attraction
Attraction(name, rating, indoor, outdoor) ==
    [name |-> name, rating |-> rating, indoor |-> indoor, outdoor |-> outdoor,
     time_slot |-> "None"]

\* sorted(items, key=lambda x: x.rating, reverse=True): x goes behind every
\* item rated at least as high (the sort is stable).
RECURSIVE InsertByRating(_, _)
InsertByRating(sorted, x) ==
    IF sorted = <<>> THEN <<x>>
    ELSE IF Head(sorted).rating >= x.rating
    THEN <<Head(sorted)>> \o InsertByRating(Tail(sorted), x)
    ELSE <<x>> \o sorted

RECURSIVE SortByRating(_)
SortByRating(items) ==
    IF items = <<>> THEN <<>>
    ELSE InsertByRating(SortByRating(SubSeq(items, 1, Len(items) - 1)), items[Len(items)])

\* items[start_idx:end_idx] for 0 <= start_idx <= end_idx
Slice(items, start_idx, end_idx) ==
    SubSeq(items, start_idx + 1, IF end_idx < Len(items) THEN end_idx ELSE Len(items))

\* _distribute_items_across_days
DistributeItemsAcrossDays(items, total_days, items_per_day) ==
    IF items = <<>> THEN [day \in 1..total_days |-> <<>>]
    ELSE LET sorted_items == SortByRating(items)
         IN [day \in 1..total_days |->
                Slice(sorted_items, (day - 1) * items_per_day,
                      (day - 1) * items_per_day + items_per_day)]

\* _get_weather_for_day; `today` is datetime.now()
GetWeatherForDay(weather_data, day_index, today) ==
    IF day_index < Len(weather_data) THEN weather_data[day_index + 1]
    ELSE Weather(Float(22), "cloudy", 65, Float(5), Float(24),
                 Strftime(AddDays(today, day_index)))

\* _categorize_weather
CategorizeWeather(weather) ==
    IF weather.description = "light_rain" THEN "rainy"
    ELSE IF weather.temperature[2] < 10 THEN "cold"
    ELSE IF weather.temperature[2] > 30 THEN "hot"
    ELSE IF weather.description = "sunny" THEN "sunny"
    ELSE "cloudy"

IsIndoor(activity) == activity.indoor
IsOutdoor(activity) == activity.outdoor
NotIndoor(activity) == ~activity.indoor
NotOutdoor(activity) == ~activity.outdoor

\* _prioritize_indoor_activities
PrioritizeIndoorActivities(activities) ==
    SelectSeq(activities, IsIndoor) \o SelectSeq(activities, NotIndoor)

\* _prioritize_outdoor_activities
PrioritizeOutdoorActivities(activities) ==
    SelectSeq(activities, IsOutdoor) \o SelectSeq(activities, NotOutdoor)

\* data.models.DayPlan after __post_init__
DayPlan(day, date, weather) ==
    [day |-> day, date |-> date, weather |-> weather, attractions |-> <<>>,
     restaurants |-> <<>>, activities |-> <<>>, transportation |-> 0,
     recommendations |-> 0]

\* _add_timing_recommendations
AddTimingRecommendations(day_plan) ==
    [day_plan EXCEPT
        !.attractions = [i \in 1..Len(@) |->
            [@[i] EXCEPT !.time_slot = IF i = 1 THEN "morning" ELSE "afternoon"]],
        !.activities = [i \in 1..Len(@) |-> [@[i] EXCEPT !.time_slot = "morning-afternoon"]],
        !.restaurants = [i \in 1..Len(@) |->
            [@[i] EXCEPT !.time_slot = IF i = 1 THEN "lunch" ELSE "dinner"]]]

\* _add_weather_recommendations: the number of recommendations added.
AddWeatherRecommendations(day_plan, weather_condition) ==
    [day_plan EXCEPT !.recommendations =
        @ + (IF weather_condition \in {"rainy", "sunny", "cold", "hot"} THEN 4 ELSE 0)]

\* _optimize_day_schedule
OptimizeDaySchedule(day_plan) ==
    LET weather_condition == CategorizeWeather(day_plan.weather)
        ordered ==
            IF weather_condition = "rainy"
            THEN [day_plan EXCEPT !.attractions = PrioritizeIndoorActivities(@),
                                  !.activities = PrioritizeIndoorActivities(@)]
            ELSE IF weather_condition = "sunny"
            THEN [day_plan EXCEPT !.attractions = PrioritizeOutdoorActivities(@),
                                  !.activities = PrioritizeOutdoorActivities(@)]
            ELSE day_plan
    IN AddWeatherRecommendations(AddTimingRecommendations(ordered), weather_condition)

\* _plan_transportation: the number of legs planned.
PlanTransportation(day_plan) ==
    LET total_activities ==
            Len(day_plan.attractions) + Len(day_plan.activities) + Len(day_plan.restaurants)
    IN IF total_activities <= 1 THEN 0 ELSE total_activities - 1

\* The loop body with the date taken one day late:
\* start_date + timedelta(days=day_num).
PlanDayOneDayLate(day_num, start_date, weather_data, daily, today) ==
    LET day_plan == DayPlan(day_num, Strftime(AddDays(start_date, day_num)),
                            GetWeatherForDay(weather_data, day_num - 1, today))
        filled ==
            [day_plan EXCEPT
                !.attractions = IF day_num <= Len(daily.attractions)
                                THEN daily.attractions[day_num] ELSE @,
                !.restaurants = IF day_num <= Len(daily.restaurants)
                                THEN daily.restaurants[day_num] ELSE @,
                !.activities = IF day_num <= Len(daily.activities)
                               THEN daily.activities[day_num] ELSE @]
        optimized == OptimizeDaySchedule(filled)
    IN [optimized EXCEPT !.transportation = PlanTransportation(optimized)]

\* The body of the loop of create_itinerary for day_num.
PlanDay(day_num, start_date, weather_data, daily, today) ==
    LET daily_attractions == daily.attractions
        daily_restaurants == daily.restaurants
        daily_activities == daily.activities
        current_date == AddDays(start_date, day_num - 1)
        date_str == Strftime(current_date)
        day_weather == GetWeatherForDay(weather_data, day_num - 1, today)
        day_plan == DayPlan(day_num, date_str, day_weather)
        filled ==
            [day_plan EXCEPT
                !.attractions = IF day_num <= Len(daily_attractions)
                                THEN daily_attractions[day_num] ELSE @,
                !.restaurants = IF day_num <= Len(daily_restaurants)
                                THEN daily_restaurants[day_num] ELSE @,
                !.activities = IF day_num <= Len(daily_activities)
                               THEN daily_activities[day_num] ELSE @]
        optimized == OptimizeDaySchedule(filled)
    IN [optimized EXCEPT !.transportation = PlanTransportation(optimized)]

\* _balance_itinerary: the inner loop, which hands the excess of day i to the
\* days that have fewer attractions than the target.
RECURSIVE GiveLoop(_, _, _, _, _)
GiveLoop(itinerary, i, j, excess, target) ==
    IF j > Len(itinerary) THEN itinerary
    ELSE IF j # i /\ Len(itinerary[j].attractions) < target /\ excess # <<>>
    THEN GiveLoop([itinerary EXCEPT ![j].attractions = Append(@, Head(excess))],
                  i, j + 1, Tail(excess), target)
    ELSE GiveLoop(itinerary, i, j + 1, excess, target)

\* _balance_itinerary: the outer loop from day i on.
RECURSIVE BalanceLoop(_, _, _)
BalanceLoop(itinerary, i, target) ==
    IF i > Len(itinerary) THEN itinerary
    ELSE IF Len(itinerary[i].attractions) > target + 1
    THEN LET excess == Slice(itinerary[i].attractions, target,
                             Len(itinerary[i].attractions))
             cut == [itinerary EXCEPT ![i].attractions = Slice(@, 0, target)]
         IN BalanceLoop(GiveLoop(cut, i, 1, excess, target), i + 1, target)
    ELSE BalanceLoop(itinerary, i + 1, target)

RECURSIVE SumAttractions(_)
SumAttractions(itinerary) ==
    IF itinerary = <<>> THEN 0
    ELSE Len(Head(itinerary).attractions) + SumAttractions(Tail(itinerary))

Max(a, b) == IF a >= b THEN a ELSE b

\* _balance_itinerary: `total_attractions // total_days` raises
\* ZeroDivisionError when total_days is 0.
BalanceItinerary(itinerary, total_days) ==
    IF total_days = 0 THEN [raised |-> "ZeroDivisionError", itinerary |-> <<>>]
    ELSE LET target_attractions_per_day ==
                 Max(1, SumAttractions(itinerary) \div total_days)
         IN [raised |-> "None",
             itinerary |-> BalanceLoop(itinerary, 1, target_attractions_per_day)]

\* create_itinerary: what it raises, if anything, and what it returns.
CreateItinerary(trip_details, weather_data, attractions, restaurants, activities, today) ==
    LET total_days == trip_details.total_days
        start_date == trip_details.start_date
        daily_attractions == DistributeItemsAcrossDays(attractions, total_days, 2)
        daily_restaurants == DistributeItemsAcrossDays(restaurants, total_days, 2)
        daily_activities == DistributeItemsAcrossDays(activities, total_days, 1)
        itinerary ==
            [day_num \in 1..total_days |->
                PlanDay(day_num, start_date, weather_data,
                        [attractions |-> daily_attractions,
                         restaurants |-> daily_restaurants,
                         activities |-> daily_activities], today)]
    IN BalanceItinerary(itinerary, total_days)

(***************************************************************************)
(* SpecItinerary: create_itinerary is called once on lists of every length *)
(* up to the bounds.  Its one call site, src/main.py line 136, hands it    *)
(* the trip_details of UserInputHandler.get_trip_details, whose _get_dates *)
(* asks again while end_date <= start_date (src/modules/user_input.py      *)
(* lines 199-204): total_days = (end_date - start_date).days is at least 1.*)
(***************************************************************************)
\* The i-th of the attractions, restaurants or activities handed in.
Item(kind, i) == Attraction(<<kind, i>>, 38 + ((i * 3) % 5) * 2, i % 2 = 0, i % 3 = 0)

Items(kind, n) == [i \in 1..n |-> Item(kind, i)]

StartDates ==
    { [year |-> 2024, month |-> 2, day |-> 28], [year |-> 2025, month |-> 2, day |-> 27],
      [year |-> 2025, month |-> 12, day |-> 30] }

\* Days on which the planner runs (datetime.now()).
Todays == { [year |-> 2024, month |-> 2, day |-> 20], [year |-> 2025, month |-> 12, day |-> 25] }

ItineraryInit ==
    /\ InitHub
    /\ InitOrchestratorIdle
    /\ NoApi
    /\ \E total_days \in 1..MaxTripDays, start_date \in StartDates, today \in Todays,
          w \in 0..MaxWeatherEntries, a \in 0..MaxAttractions, r \in 0..MaxRestaurants,
          c \in 0..MaxActivities :
          call = [op |-> "call_create_itinerary",
                  trip_details |-> [total_days |-> total_days, start_date |-> start_date],
                  today |-> today, weather_entries |-> w, attractions |-> a,
                  restaurants |-> r, activities |-> c,
                  raised |-> "None", itinerary |-> <<>>]

ItineraryCreateItinerary ==
    /\ call.op = "call_create_itinerary"
    /\ LET done == CreateItinerary(call.trip_details,
                                   GetMockForecast(call.weather_entries, call.today),
                                   Items("attraction", call.attractions),
                                   Items("restaurant", call.restaurants),
                                   Items("activity", call.activities), call.today)
       IN call' = [call EXCEPT !.op = "create_itinerary", !.raised = done.raised,
                               !.itinerary = done.itinerary]
    /\ UNCHANGED <<hubVars, last, orchVars, apiVars>>

ItineraryNext == ItineraryCreateItinerary

SpecItinerary == ItineraryInit /\ [][ItineraryNext]_vars

\* The date a string of strftime('%Y-%m-%d') stands for.
ParseDate(s) ==
    [year |-> s[1] * 1000 + s[2] * 100 + s[3] * 10 + s[4],
     month |-> s[6] * 10 + s[7], day |-> s[9] * 10 + s[10]]

RECURSIVE DaysBeforeYear(_)
DaysBeforeYear(year) ==
    IF year <= 2024 THEN 0
    ELSE DaysBeforeYear(year - 1) + (IF IsLeap(year - 1) THEN 366 ELSE 365)

RECURSIVE DaysBeforeMonth(_, _)
DaysBeforeMonth(year, month) ==
    IF month <= 1 THEN 0
    ELSE DaysBeforeMonth(year, month - 1) + DaysInMonth(year, month - 1)

\* Days from 2024-01-01 to the date.
Ordinal(date) == DaysBeforeYear(date.year) + DaysBeforeMonth(date.year, date.month) + date.day - 1

\* The list is one DayPlan per day: total_days of them, numbered 1, 2, ...,
\* dated start_date, start_date + 1 day, ...
OnePlanPerDay(itinerary, trip_details) ==
    /\ Len(itinerary) = trip_details.total_days
    /\ \A k \in 1..Len(itinerary) :
          /\ itinerary[k].day = k
          /\ Ordinal(ParseDate(itinerary[k].date)) = Ordinal(trip_details.start_date) + k - 1

\* C9: create_itinerary returns exactly total_days DayPlans, numbered
\* 1..total_days and dated from start_date on day by day, whatever the number
\* of weather entries, attractions, restaurants and activities.
C9_OnePlanPerDay ==
    call.op = "create_itinerary" =>
        /\ call.raised = "None"
        /\ OnePlanPerDay(call.itinerary, call.trip_details)

\* A trip of MaxTripDays days planned from no weather entry, no restaurant
\* and no activity but MaxAttractions attractions: one plan per day came back.
C9_Witness ==
    /\ call.op = "create_itinerary"
    /\ call.trip_details.total_days = MaxTripDays
    /\ call.weather_entries = 0
    /\ call.attractions = MaxAttractions
    /\ call.restaurants = 0
    /\ call.activities = 0
    /\ call.raised = "None"
    /\ Len(call.itinerary) = MaxTripDays
    /\ call.itinerary[MaxTripDays].day = MaxTripDays

(***************************************************************************)
(* The REST server (src/backend/api_server.py).  One process, one asyncio  *)
(* event loop thread: request handlers and the background coroutines of    *)
(* the tasks all run on it, one at a time, and give it up only at an       *)
(* await.  Time is counted in units of 60 seconds while the event loop     *)
(* thread is inside the LangGraph step of a task.  LangGraphTravelAgents   *)
(* and SimpleTravelAgent are calls into code outside this development:     *)
(* each returns a result that reports success, returns one that reports    *)
(* failure, returns one without a "success" entry, or raises, after any    *)
(* time.                                                                   *)
(***************************************************************************)
MaxTasks == 2
MaxElapsed == 6

\* future.result(timeout=240) and asyncio.wait_for(..., timeout=300.0), in
\* units of 60 seconds.
FutureTimeout == 4
WaitForTimeout == 5

TaskIds == 1..MaxTasks
PlanningOutcomes == {"success", "failure", "malformed", "raised"}
NoResult == [from |-> "none", outcome |-> "none"]

\* asyncio.wait_for raised TimeoutError instead of returning a result.
TimeoutError == [from |-> "wait_for", outcome |-> "TimeoutError"]

\* create_travel_plan, simple_travel_plan: the entry stored for a new task;
\* current_agent is "system_init" in the first and "simple_agent" in the second.
NewTask(current_agent) ==
    [status |-> "started", progress |-> 0, result |-> "None",
     current_agent |-> current_agent]

\* Where the background coroutine of a task stands, and, while it waits in
\* wait_for, what wait_for is going to hand it.
At(position) == [at |-> position, result |-> NoResult]

\* run_planning_task, first statements: the task is being processed.
StartProcessing(task) == [task EXCEPT !.status = "processing", !.progress = 10]

\* run_planning_task after wait_for, result["success"] true.
PlanningCompleted(task, kind) ==
    [task EXCEPT !.status = "completed", !.progress = 100, !.result = kind]

\* run_planning_task after wait_for, result["success"] false.
PlanningFailed(task) == [task EXCEPT !.status = "failed"]

\* run_langgraph has no await: once started it runs to its return statement
\* without giving the event loop thread back.
RunLanggraphAwaits == FALSE

\* asyncio.wait_for(run_langgraph(), timeout=300.0) raises TimeoutError only
\* if the deadline passes while run_langgraph is suspended at an await.
WaitForTimesOut(elapsed) == RunLanggraphAwaits /\ elapsed >= WaitForTimeout

\* asyncio.wait_for(run_langgraph(), timeout=300.0): what it hands to
\* run_planning_task when run_langgraph has returned result after elapsed
\* units of time.
WaitFor(result, elapsed) == IF WaitForTimesOut(elapsed) THEN TimeoutError ELSE result

\* run_planning_task from wait_for to its end: what becomes of the task when
\* wait_for has handed it result or has raised TimeoutError.
AfterWaitFor(task, result) ==
    IF result = TimeoutError
    THEN PlanningCompleted(task, "quick_mode")
    ELSE IF result.outcome = "malformed"
    THEN PlanningCompleted(task, "simplified_mode")
    ELSE IF result.outcome = "success"
    THEN PlanningCompleted(task, result.from)
    ELSE PlanningFailed(task)

\* The event loop thread is free to run a handler or to resume a coroutine:
\* it is not inside run_langgraph, and it has written the response of the
\* handler that ran last (the background task that create_travel_plan adds
\* runs after the response has been sent).
EventLoopFree == langgraph = NoStep /\ status_reply = NoReply

apiFrame == <<agents, collaboration_network, message_queue, message_log, last,
              pc, trip_context, plan, steps, returned, planning_history, call>>

\* json.dump and json.load of planning_tasks: None is written as null and
\* read back as None; strings, numbers and dicts are read back as written.
JsonDump(tasks) ==
    [t \in DOMAIN tasks |-> [tasks[t] EXCEPT !.result = IF @ = "None" THEN "null" ELSE @]]

JsonLoad(tasks) ==
    [t \in DOMAIN tasks |-> [tasks[t] EXCEPT !.result = IF @ = "null" THEN "None" ELSE @]]

\* tasks_state.json is there but json.load cannot read it: it is a directory,
\* or a file that does not hold a JSON document.
UnreadableFile == [kind |-> "unreadable", tasks |-> << >>]

\* What a call of save_tasks_state comes to: it writes the file; or open()
\* raises (the path is a directory, the file may not be written); or open()
\* has emptied the file and json.dump raises (the disk is full).  The except
\* branch prints what was raised and save_tasks_state returns.
SaveOutcomes == {"written", "open_raised", "dump_raised"}

\* save_tasks_state: tasks_state.json after the call, when it was file before
\* and planning_tasks is tasks.  Written, it holds all of planning_tasks; when
\* open() raised it is as it was; when json.dump raised it holds no document.
SaveTasksState(file, tasks, outcome) ==
    IF outcome = "written" THEN [kind |-> "json", tasks |-> JsonDump(tasks)]
    ELSE IF outcome = "open_raised" THEN file
    ELSE UnreadableFile

\* create_travel_plan and simple_travel_plan up to their return: a request
\* whose dates do not parse is answered with status 500; otherwise a task is
\* stored as started and its coroutine is added to the background tasks.
\* create_travel_plan calls save_tasks_state when it has stored the task
\* (save is what the call comes to), simple_travel_plan does not (save is
\* "not_called").  The handler answers 200 whatever the save came to.
CreateTask(valid_dates, current_agent, coroutine, save) ==
    /\ EventLoopFree
    /\ IF valid_dates
       THEN LET task_id == Cardinality(DOMAIN planning_tasks) + 1
            IN /\ task_id <= MaxTasks
               /\ planning_tasks' = [t \in DOMAIN planning_tasks \cup {task_id} |->
                      IF t = task_id THEN NewTask(current_agent)
                      ELSE planning_tasks[t]]
               /\ tasks_file' =
                      IF save = "not_called" THEN tasks_file
                      ELSE SaveTasksState(tasks_file, planning_tasks', save)
               /\ background' = [t \in DOMAIN background \cup {task_id} |->
                      IF t = task_id THEN At(coroutine) ELSE background[t]]
               /\ status_reply' = [code |-> 200, task_id |-> task_id,
                      status |-> "started"]
       ELSE /\ status_reply' = [NoReply EXCEPT !.code = 500]
            /\ UNCHANGED <<planning_tasks, background, tasks_file>>
    /\ UNCHANGED <<langgraph, apiFrame>>

\* POST /plan.
CreateTravelPlan(valid_dates, save) ==
    CreateTask(valid_dates, "system_init", "queued", save)

\* POST /simple-plan.
SimpleTravelPlan(valid_dates) ==
    CreateTask(valid_dates, "simple_agent", "queued_simple", "not_called")

\* run_simple_planning from the call of SimpleTravelAgent to its end; a result
\* without a "success" entry raises KeyError, which the except branch treats
\* like any exception of the call.
AfterSimplePlanning(task, outcome) ==
    IF outcome = "success"
    THEN [task EXCEPT !.status = "completed", !.progress = 100,
                      !.result = "simple_agent"]
    ELSE [task EXCEPT !.status = "failed", !.progress = 30]

\* run_simple_planning, the background coroutine of POST /simple-plan.  It has
\* no await before its status is final: it sets status processing and
\* progress 30, calls SimpleTravelAgent on the event loop thread and stores
\* the outcome, all in one turn of the event loop.
RunSimplePlanning(task_id, outcome) ==
    /\ EventLoopFree
    /\ task_id \in DOMAIN background
    /\ background[task_id].at = "queued_simple"
    /\ planning_tasks' = [planning_tasks EXCEPT ![task_id] =
          AfterSimplePlanning([@ EXCEPT !.status = "processing", !.progress = 30],
                              outcome)]
    /\ background' = [background EXCEPT ![task_id] = At("done")]
    /\ UNCHANGED <<langgraph, status_reply, tasks_file, apiFrame>>

\* GET /status/{task_id}.
GetPlanningStatus(task_id) ==
    /\ EventLoopFree
    /\ status_reply' =
          IF task_id \notin DOMAIN planning_tasks
          THEN [NoReply EXCEPT !.code = 404, !.task_id = task_id]
          ELSE [code |-> 200, task_id |-> task_id,
                status |-> planning_tasks[task_id].status]
    /\ UNCHANGED <<planning_tasks, background, langgraph, tasks_file, apiFrame>>

\* The handler has returned (or raised HTTPException): the response goes out.
SendResponse ==
    /\ status_reply # NoReply
    /\ status_reply' = NoReply
    /\ UNCHANGED <<planning_tasks, background, langgraph, tasks_file, apiFrame>>

\* run_planning_task up to its first await.
RunPlanningTask(task_id) ==
    /\ EventLoopFree
    /\ task_id \in DOMAIN background
    /\ background[task_id].at = "queued"
    /\ planning_tasks' = [planning_tasks EXCEPT ![task_id] = StartProcessing(@)]
    /\ background' = [background EXCEPT ![task_id] = At("sleep_1")]
    /\ UNCHANGED <<langgraph, status_reply, tasks_file, apiFrame>>

\* run_planning_task resumed after its first or second asyncio.sleep(1).
AfterSleep(task_id) ==
    /\ EventLoopFree
    /\ task_id \in DOMAIN background
    /\ background[task_id].at \in {"sleep_1", "sleep_2"}
    /\ planning_tasks' = [planning_tasks EXCEPT ![task_id].progress =
          IF background[task_id].at = "sleep_1" THEN 30 ELSE 50]
    /\ background' = [background EXCEPT ![task_id] =
          IF background[task_id].at = "sleep_1" THEN At("sleep_2") ELSE At("sleep_3")]
    /\ UNCHANGED <<langgraph, status_reply, tasks_file, apiFrame>>

\* run_planning_task resumed after its third sleep: wait_for starts
\* run_langgraph, which constructs LangGraphTravelAgents and, if that does
\* not raise, submits run_planning to a new worker thread and blocks in
\* future.result; if the constructor raises, run_langgraph returns a result
\* that reports failure, and run_planning_task waits in wait_for for it.
RunLanggraph(task_id, init_ok) ==
    /\ EventLoopFree
    /\ task_id \in DOMAIN background
    /\ background[task_id].at = "sleep_3"
    /\ IF init_ok
       THEN /\ planning_tasks' = [planning_tasks EXCEPT ![task_id].progress = 60]
            /\ background' = [background EXCEPT ![task_id] = At("run_langgraph")]
            /\ langgraph' = [task |-> task_id, phase |-> "future_result",
                             worker |-> "running", result |-> NoResult,
                             elapsed |-> 0]
       ELSE /\ planning_tasks' = [planning_tasks EXCEPT ![task_id].progress = 50]
            /\ background' = [background EXCEPT ![task_id] =
                  [at |-> "wait_for",
                   result |-> WaitFor([from |-> "init", outcome |-> "failure"], 0)]]
            /\ UNCHANGED langgraph
    /\ UNCHANGED <<status_reply, tasks_file, apiFrame>>

\* run_langgraph returns result.  wait_for runs run_langgraph as a task of
\* its own, so the event loop thread is free again, and run_planning_task goes
\* on only when the event loop resumes it; until then the task is as
\* run_langgraph left it.
ReturnFromLanggraph(result) ==
    /\ background' = [background EXCEPT ![langgraph.task] =
          [at |-> "wait_for", result |-> WaitFor(result, langgraph.elapsed)]]
    /\ langgraph' = NoStep
    /\ UNCHANGED planning_tasks

\* run_planning_task after wait_for calls save_tasks_state in one branch
\* only: result["success"] is true.  The branches that set status failed, the
\* TimeoutError branch and the branch of any other exception do not call it.
SavesAfterWaitFor(result) == result # TimeoutError /\ result.outcome = "success"

\* run_planning_task resumed in wait_for, which returns the result of
\* run_langgraph or raises; run_planning_task runs to its end.  save is what
\* the call of save_tasks_state comes to, in the branch that makes it.
ResumeAfterWaitFor(task_id, save) ==
    /\ EventLoopFree
    /\ task_id \in DOMAIN background
    /\ background[task_id].at = "wait_for"
    /\ planning_tasks' = [planning_tasks EXCEPT ![task_id] =
          AfterWaitFor(@, background[task_id].result)]
    /\ tasks_file' = IF SavesAfterWaitFor(background[task_id].result)
                     THEN SaveTasksState(tasks_file, planning_tasks', save)
                     ELSE tasks_file
    /\ background' = [background EXCEPT ![task_id] = At("done")]
    /\ UNCHANGED <<langgraph, status_reply, apiFrame>>

\* The event loop thread waits for the worker thread: in future.result, and in
\* the shutdown(wait=True) that leaving the with block performs.
WaitsForWorker == langgraph.phase \in {"future_result", "shutdown"}

\* 60 seconds pass while the event loop thread is inside run_langgraph.
\* future.result returns as soon as the worker has finished and raises
\* TimeoutError at its deadline; shutdown returns as soon as the worker has
\* finished.
Tick ==
    /\ langgraph # NoStep
    /\ langgraph.elapsed < MaxElapsed
    /\ langgraph.phase = "future_result" =>
          langgraph.worker = "running" /\ langgraph.elapsed < FutureTimeout
    /\ langgraph.phase = "shutdown" => langgraph.worker = "running"
    /\ langgraph' = [langgraph EXCEPT !.elapsed = @ + 1]
    /\ UNCHANGED <<planning_tasks, background, status_reply, tasks_file, apiFrame>>

\* The worker thread: travel_agents.run_travel_planning returns or raises.
\* Once future.result has raised TimeoutError nothing reads the future again,
\* so all that is left of the call is that its thread has finished.
RunPlanning(outcome) ==
    /\ langgraph # NoStep
    /\ langgraph.worker = "running"
    /\ langgraph' = [langgraph EXCEPT !.worker =
          IF langgraph.phase = "future_result" THEN outcome ELSE "finished"]
    /\ UNCHANGED <<planning_tasks, background, status_reply, tasks_file, apiFrame>>

\* future.result returns what the worker returned, or raises what it raised;
\* in the second case the except branch calls SimpleTravelAgent, and all that
\* is left of the worker's call is that its thread has finished.
FutureResult ==
    /\ langgraph.phase = "future_result"
    /\ langgraph.worker # "running"
    /\ IF langgraph.worker = "raised"
       THEN /\ planning_tasks' = [planning_tasks EXCEPT ![langgraph.task].progress = 80]
            /\ langgraph' = [langgraph EXCEPT !.phase = "simple_agent",
                                              !.worker = "finished"]
            /\ UNCHANGED background
       ELSE ReturnFromLanggraph([from |-> "langgraph", outcome |-> langgraph.worker])
    /\ UNCHANGED <<status_reply, tasks_file, apiFrame>>

\* future.result raises TimeoutError after 240 seconds; the except branch
\* calls SimpleTravelAgent.
FutureTimeoutError ==
    /\ langgraph.phase = "future_result"
    /\ langgraph.worker = "running"
    /\ langgraph.elapsed >= FutureTimeout
    /\ planning_tasks' = [planning_tasks EXCEPT ![langgraph.task].progress = 80]
    /\ langgraph' = [langgraph EXCEPT !.phase = "simple_agent"]
    /\ UNCHANGED <<background, status_reply, tasks_file, apiFrame>>

\* SimpleTravelAgent().run_travel_planning returns or raises, on the event loop
\* thread; control leaves the with block, whose exit shuts the executor down.
\* What it raises is caught by the outer except of run_langgraph.
SimpleAgent(outcome) ==
    /\ langgraph.phase = "simple_agent"
    /\ langgraph' = [langgraph EXCEPT
          !.phase = "shutdown",
          !.result = IF outcome = "raised"
                     THEN [from |-> "init", outcome |-> "failure"]
                     ELSE [from |-> "simple_agent", outcome |-> outcome]]
    /\ UNCHANGED <<planning_tasks, background, status_reply, tasks_file, apiFrame>>

\* ThreadPoolExecutor.__exit__: shutdown(wait=True) returns when the worker
\* thread has finished; run_langgraph then returns.
ExecutorShutdown ==
    /\ langgraph.phase = "shutdown"
    /\ langgraph.worker # "running"
    /\ ReturnFromLanggraph(langgraph.result)
    /\ UNCHANGED <<status_reply, tasks_file, apiFrame>>

\* A task of POST /plan as planning_tasks holds it between two turns of the
\* event loop: started; processing with the progress of the await it has
\* reached (10, 30, 50 at the sleeps and after a constructor that raised, 60
\* after the LangGraph step, 80 after the fallback); completed with the result
\* of LangGraph, of SimpleTravelAgent or of the simplified mode; failed with
\* the progress it had.
PlanTasks ==
    {NewTask("system_init")}
    \cup {[StartProcessing(NewTask("system_init")) EXCEPT !.progress = progress] :
             progress \in {10, 30, 50, 60, 80}}
    \cup {PlanningCompleted(StartProcessing(NewTask("system_init")), kind) :
             kind \in {"langgraph", "simple_agent", "simplified_mode"}}
    \cup {PlanningFailed([StartProcessing(NewTask("system_init")) EXCEPT
                             !.progress = progress]) : progress \in {50, 60, 80}}

\* A task of POST /simple-plan between two turns of the event loop: started,
\* completed or failed.
SimpleTasks ==
    {NewTask("simple_agent")}
    \cup {AfterSimplePlanning([NewTask("simple_agent") EXCEPT
                                  !.status = "processing", !.progress = 30], outcome) :
             outcome \in PlanningOutcomes}

\* The tasks that planning_tasks can hold when save_tasks_state is called.
SavedTaskLists ==
    UNION {[1..n -> PlanTasks \cup SimpleTasks] : n \in 1..MaxTasks}

\* What a call of save_tasks_state has written: all of planning_tasks, when
\* create_travel_plan has just stored the last task as started, or when
\* run_planning_task has just completed a task with a result of run_langgraph
\* that reports success.
WrittenBySave(tasks) ==
    \/ tasks[Len(tasks)] = NewTask("system_init")
    \/ \E t \in DOMAIN tasks, kind \in {"langgraph", "simple_agent"} :
          tasks[t] = PlanningCompleted(StartProcessing(NewTask("system_init")), kind)

\* tasks_state.json as the server finds it at start: absent, not readable as
\* JSON, or what save_tasks_state of an earlier run of the server wrote last.
TasksFiles ==
    {NoFile, UnreadableFile}
    \cup {SaveTasksState(NoFile, tasks, "written") :
             tasks \in {saved \in SavedTaskLists : WrittenBySave(saved)}}

\* load_tasks_state: the tasks of the file if it exists and json.load reads
\* it, else no task.
LoadTasksState(file) == IF file.kind = "json" THEN JsonLoad(file.tasks) ELSE << >>

\* api_server at start: planning_tasks is what load_tasks_state found; no
\* background coroutine exists, not for the tasks loaded either.
InitApi ==
    /\ tasks_file \in TasksFiles
    /\ planning_tasks = LoadTasksState(tasks_file)
    /\ background = << >>
    /\ langgraph = NoStep
    /\ status_reply = NoReply

ApiInit == InitHub /\ InitOrchestratorIdle /\ call = NoModuleCall /\ InitApi

\* The server process ends, at any point, and is started again: the module is
\* imported anew, load_tasks_state reads tasks_state.json as the process that
\* ended left it, and none of that process's coroutines, threads and
\* responses exists any more.
Restart ==
    /\ planning_tasks' = LoadTasksState(tasks_file)
    /\ background' = << >>
    /\ langgraph' = NoStep
    /\ status_reply' = NoReply
    /\ UNCHANGED <<tasks_file, apiFrame>>

ApiNext ==
    \/ \E valid_dates \in BOOLEAN, save \in SaveOutcomes :
          CreateTravelPlan(valid_dates, save)
    \/ \E valid_dates \in BOOLEAN : SimpleTravelPlan(valid_dates)
    \/ \E task_id \in TaskIds : GetPlanningStatus(task_id)
    \/ SendResponse
    \/ \E task_id \in TaskIds : RunPlanningTask(task_id)
    \/ \E task_id \in TaskIds : AfterSleep(task_id)
    \/ \E task_id \in TaskIds, init_ok \in BOOLEAN : RunLanggraph(task_id, init_ok)
    \/ Tick
    \/ \E outcome \in PlanningOutcomes : RunPlanning(outcome)
    \/ FutureResult
    \/ FutureTimeoutError
    \/ \E outcome \in PlanningOutcomes : SimpleAgent(outcome)
    \/ ExecutorShutdown
    \/ \E task_id \in TaskIds, save \in SaveOutcomes :
          ResumeAfterWaitFor(task_id, save)
    \/ \E task_id \in TaskIds, outcome \in PlanningOutcomes :
          RunSimplePlanning(task_id, outcome)
    \/ Restart

SpecApi == ApiInit /\ [][ApiNext]_vars

\* The scheduling the server relies on.  The event loop runs what is ready in
\* the order in which it became ready, so a coroutine that is ready again and
\* again (a queued background task, an elapsed sleep, a finished wait_for) is run however many
\* requests arrive; a response that is due is written; a call that is blocked
\* in future.result or in the executor's shutdown proceeds when what it waits
\* for has happened.  The planning calls (run_travel_planning of
\* LangGraphTravelAgents in the worker thread, of SimpleTravelAgent on the
\* event loop thread) return or raise in the end.
BackgroundStep(task_id) ==
    \/ RunPlanningTask(task_id)
    \/ AfterSleep(task_id)
    \/ \E init_ok \in BOOLEAN : RunLanggraph(task_id, init_ok)
    \/ \E save \in SaveOutcomes : ResumeAfterWaitFor(task_id, save)
    \/ \E outcome \in PlanningOutcomes : RunSimplePlanning(task_id, outcome)

BlockedCallProceeds == FutureResult \/ FutureTimeoutError \/ ExecutorShutdown

ApiFairness ==
    /\ SF_vars(\E task_id \in TaskIds : BackgroundStep(task_id))
    /\ WF_vars(SendResponse \/ BlockedCallProceeds)
    /\ WF_vars(\/ \E outcome \in PlanningOutcomes : RunPlanning(outcome)
               \/ \E outcome \in PlanningOutcomes : SimpleAgent(outcome))

SpecApiLive == ApiInit /\ [][ApiNext]_vars /\ ApiFairness

(***************************************************************************)
(* Claims about the REST server.                                           *)
(***************************************************************************)
TaskStatuses == {"started", "processing", "completed", "failed"}
StatusMoves ==
    {<<"started", "processing">>, <<"processing", "completed">>,
     <<"processing", "failed">>}

\* One step of the server as the lifecycle allows it: every task of POST /plan
\* is still there afterwards, its status is one of the four, and it is the
\* status it had or one that StatusMoves reaches from it; a new task is
\* started.
StatusLifecycleStep ==
    /\ \A t \in DOMAIN planning_tasks :
          planning_tasks[t].current_agent = "system_init" =>
             t \in DOMAIN planning_tasks'
    /\ \A t \in DOMAIN planning_tasks' :
          planning_tasks'[t].current_agent = "system_init" =>
             /\ planning_tasks'[t].status \in TaskStatuses
             /\ IF t \in DOMAIN planning_tasks
                THEN \/ planning_tasks[t].current_agent # "system_init"
                     \/ planning_tasks'[t].status = planning_tasks[t].status
                     \/ <<planning_tasks[t].status, planning_tasks'[t].status>>
                           \in StatusMoves
                ELSE planning_tasks'[t].status = "started"

\* C11: the status of a task created through POST /plan is one of started,
\* processing, completed and failed; the task is created as started, and each
\* step of the server either leaves its status alone or moves it from started
\* to processing or from processing to completed or failed, so a completed or
\* failed task keeps its status for ever.
C11_StatusLifecycle == [][StatusLifecycleStep]_vars

\* What holds instead: the lifecycle holds for as long as the server process
\* runs; only a restart takes a task back to the status that save_tasks_state
\* wrote last.
StatusLifecycleWithinRun == [][Restart \/ StatusLifecycleStep]_vars

\* C12: every task created through POST /plan reaches status completed or
\* failed in the end, given that the planning calls made for it return or
\* raise (ApiFairness); no task stays started or processing for ever.
C12_EveryTaskTerminates ==
    \A t \in TaskIds :
        (t \in DOMAIN planning_tasks)
            ~> (t \in DOMAIN planning_tasks
                /\ planning_tasks[t].status \in {"completed", "failed"})

\* What holds instead: every task that has a background coroutine in this run
\* of the server, of POST /plan or of POST /simple-plan, reaches status
\* completed or failed, however long the planning calls take, unless the
\* server is restarted first.
TaskWithCoroutineTerminates ==
    \A t \in TaskIds :
        (t \in DOMAIN background)
            ~> \/ t \notin DOMAIN background
               \/ planning_tasks[t].status \in {"completed", "failed"}

\* C13: a LangGraph step that has not finished 300 seconds after it was
\* started is abandoned: no step is still running later than that, a step that
\* ended later than that ended in wait_for's TimeoutError, and the task then
\* has the quick-mode result with status completed and progress 100.
C13_AbandonedAfter300 ==
    [][/\ langgraph' # NoStep => langgraph'.elapsed <= WaitForTimeout
       /\ (langgraph # NoStep /\ langgraph' = NoStep
              /\ langgraph.elapsed > WaitForTimeout)
          => background'[langgraph.task].result = TimeoutError
       /\ \A t \in DOMAIN background :
             (background[t].result = TimeoutError /\ background'[t].at = "done")
                => /\ planning_tasks'[t].status = "completed"
                   /\ planning_tasks'[t].progress = 100
                   /\ planning_tasks'[t].result = "quick_mode"
      ]_vars

\* What holds instead: no task is ever given the quick-mode result, however
\* long its LangGraph step lasts.
QuickModeNeverGiven ==
    \A t \in DOMAIN planning_tasks : planning_tasks[t].result # "quick_mode"

\* C14: the event loop thread waits for the planning call in the worker thread
\* for at most 240 seconds: when the call is still running then, the task
\* falls back to SimpleTravelAgent, and no time is spent waiting for the
\* worker thread after that, so the task reaches its final status while the
\* worker may still be running.
C14_WorkerWaitedAtMost240 ==
    [][/\ (WaitsForWorker /\ langgraph'.elapsed > langgraph.elapsed)
             => langgraph'.elapsed <= FutureTimeout
       /\ (langgraph.phase = "future_result" /\ langgraph.worker = "running"
             /\ langgraph.elapsed >= FutureTimeout
             /\ langgraph'.phase # "future_result")
             => langgraph'.phase = "simple_agent"
      ]_vars

\* What holds instead: run_langgraph never returns while the worker thread is
\* still running, so a task gets its final status only after the worker call
\* has ended, however long that takes; only the end of the server process
\* ends the step earlier.
StepEndsAfterWorker ==
    [][(langgraph # NoStep /\ langgraph' = NoStep)
          => (Restart \/ langgraph.worker # "running")]_vars

\* C15: planning does not block the server: while the planning call of a task
\* is executing in the worker thread, GET /status/{task_id} can be answered,
\* for that task and for every other task.
C15_StatusAnsweredWhilePlanning ==
    langgraph.worker = "running"
        => \A t \in DOMAIN planning_tasks : ENABLED GetPlanningStatus(t)

\* What holds instead: from the moment the planning call is submitted until
\* run_langgraph returns, no handler runs and no other task advances.
EventLoopBlockedWhilePlanning ==
    langgraph # NoStep
        => /\ \A t \in TaskIds : ~ ENABLED GetPlanningStatus(t)
           /\ \A t \in TaskIds : ~ ENABLED BackgroundStep(t)
           /\ \A v \in BOOLEAN, save \in SaveOutcomes :
                 ~ ENABLED CreateTravelPlan(v, save)

====
